---- MODULE Spec2Model ----
(***************************************************************************)
(* A model of python_vsan_sdk_monitoring: the command line program         *)
(* queryvsancluster.py, the class VsanClusterCheck it drives and the pure   *)
(* helpers of libs/util.py.                                                 *)
(*                                                                         *)
(* Conventions.                                                            *)
(*  - A Python value that may be None is a sequence of length 0 or 1:      *)
(*    None is <<>> and a present value v is <<v>>.                          *)
(*  - A Python float is a dyadic rational [num, den] with den a power of    *)
(*    two; on such values double arithmetic is exact, so the model's exact  *)
(*    arithmetic is the program's.  The inputs drawn below stay inside that *)
(*    range.                                                                *)
(*  - A byte count is its sequence of base-1024 digits, most significant    *)
(*    first and without leading zeros (zero is <<0>>), so that counts of    *)
(*    1024^6 and more can be drawn although TLC's integers have 32 bits.    *)
(*  - Names that Python orders (host names, object types, uuids) are        *)
(*    integers standing for the names in their lexicographic order.         *)
(*  - trace is the sequence of externally visible effects of a run, in the  *)
(*    order they happen: <<kind, what, where, arg>> with kind one of "call" *)
(*    (a call into pyVmomi / the vSAN SDK; arg is the connection handle     *)
(*    returned or passed, when there is one), "print" (a print statement),  *)
(*    "enter" (a report is started) and "raise" (an exception leaves the    *)
(*    function `where`).                                                    *)
(*  - The interpreter is CPython: an object is finalised (__del__) when its *)
(*    last reference goes away, which for the one VsanClusterCheck object   *)
(*    is when main() returns, or at interpreter shutdown when an exception  *)
(*    left main() (the traceback held the frame until then).                *)
(***************************************************************************)
EXTENDS Integers, Sequences, FiniteSets, TLC

VARIABLES pc, args, env, obj, life, trace, last, prev, ncalls, u

vars == <<pc, args, env, obj, life, trace, last, prev, ncalls, u>>

----------------------------------------------------------------------------
(* Bounds of the model *)

MaxDigits == 7          \* base-1024 digits of a byte count drawn for convert_bytes
MaxPct == 101           \* threshold helpers are tried on 0 .. MaxPct percent
MaxDatacenters == 2     \* datacenters under the root folder
MaxCalls == 3           \* report calls made by a client of the class

(* Program constants *)

Kilo == 1024            \* util.py: nb_bytes >= 1024, nb_bytes /= 1024.
inc_yellow == 60        \* print_thresholds_inc(value, yellow=60, red=80)
inc_red == 80
dec_green == 40         \* print_thresholds_dec(value, green=40, yellow=20)
dec_yellow == 20
MinApiMajor == 6        \* int(apiVersion.split('.')[0]) < 6
DefaultPort == 443      \* --port default

----------------------------------------------------------------------------
(* Python values *)

None == <<>>
Some(v) == <<v>>
IsNone(o) == Len(o) = 0
Val(o) == o[1]

(* bool(x) of an optional object: None is falsy, an object is truthy *)
Truthy(o) == Len(o) > 0

(* A float that holds the exact quotient num/den *)
Float(n, d) == [num |-> n, den |-> d]
FloatLt(x, k) == x.num < k * x.den
FloatGt(x, k) == x.num > k * x.den

(* '%.2f' % x: the nearest multiple of 0.01, ties to the even one (the     *)
(* conversion is correctly rounded and x is exact). The result is the      *)
(* number of hundredths.                                                    *)
Fmt2f(x) ==
    LET n == x.num * 100
        q == n \div x.den
        r == n % x.den
    IN  IF 2 * r < x.den THEN q
        ELSE IF 2 * r > x.den THEN q + 1
        ELSE IF q % 2 = 0 THEN q ELSE q + 1

----------------------------------------------------------------------------
(* libs/util.py: convert_bytes *)

suffixes == <<"B", "KB", "MB", "GB", "TB", "PB">>

(* nb_bytes during the loop: hi are the base-1024 digits of the integer    *)
(* part, lo those of the fraction.                                          *)
Bytes(digits) == [hi |-> digits, lo |-> <<>>]

(* nb_bytes >= 1024 *)
GeKilo(nb) == Len(nb.hi) >= 2

(* nb_bytes /= 1024. *)
DivKilo(nb) ==
    [hi |-> SubSeq(nb.hi, 1, Len(nb.hi) - 1),
     lo |-> <<nb.hi[Len(nb.hi)]>> \o nb.lo]

(* A faulty variant of the loop guard: the bound on i is off by one *)
convert_guard_offbyone(nb, i) == GeKilo(nb) /\ i < Len(suffixes)

(* while nb_bytes >= 1024 and i < len(suffixes) - 1 *)
convert_guard(nb, i) == GeKilo(nb) /\ i < Len(suffixes) - 1

RECURSIVE convert_loop(_, _)
convert_loop(nb, i) ==
    IF convert_guard(nb, i) THEN convert_loop(DivKilo(nb), i + 1)
    ELSE [nb |-> nb, i |-> i]

RECURSIVE DigitsToNat(_)
DigitsToNat(ds) ==
    IF Len(ds) = 0 THEN 0
    ELSE DigitsToNat(SubSeq(ds, 1, Len(ds) - 1)) * Kilo + ds[Len(ds)]

(* 100 * 0.lo, computed digit by digit from the least significant one:     *)
(* [carry |-> its integer part, rest |-> the digits of its fraction].       *)
RECURSIVE Times100(_)
Times100(lo) ==
    IF Len(lo) = 0 THEN [carry |-> 0, rest |-> <<>>]
    ELSE LET t == Times100(Tail(lo))
             v == lo[1] * 100 + t.carry
         IN  [carry |-> v \div Kilo, rest |-> <<v % Kilo>> \o t.rest]

AllZero(ds) == \A k \in 1..Len(ds) : ds[k] = 0

(* 0.ds compared with one half: -1 below, 0 equal, 1 above *)
CmpHalf(ds) ==
    IF Len(ds) = 0 THEN -1
    ELSE IF ds[1] * 2 > Kilo THEN 1
    ELSE IF ds[1] * 2 < Kilo THEN -1
    ELSE IF AllZero(Tail(ds)) THEN 0 ELSE 1

(* ('%.2f' % nb_bytes): [int |-> the digits before the point,              *)
(* cent |-> the two digits after it]                                        *)
FmtBytes(nb) ==
    LET ip == DigitsToNat(nb.hi)
        t == Times100(nb.lo)
        c == CmpHalf(t.rest)
        up == c = 1 \/ (c = 0 /\ t.carry % 2 = 1)
        cents == IF up THEN t.carry + 1 ELSE t.carry
    IN  IF cents = 100 THEN [int |-> ip + 1, cent |-> 0]
        ELSE [int |-> ip, cent |-> cents]

(* .rstrip('0').rstrip('.'): the number of decimals left *)
Decimals(f) == IF f.cent = 0 THEN 0 ELSE IF f.cent % 10 = 0 THEN 1 ELSE 2

(* suffixes[i], Python's index i counting from 0 *)
suffix_at(i) == IF i + 1 \in DOMAIN suffixes THEN suffixes[i + 1] ELSE "IndexError"

convert_bytes(digits) ==
    LET r == convert_loop(Bytes(digits), 0)
        f == FmtBytes(r.nb)
    IN  [int |-> f.int, cent |-> f.cent, decimals |-> Decimals(f),
         suffix |-> suffix_at(r.i), i |-> r.i, value |-> r.nb]

(* The base-1024 digits of a small non-negative integer *)
RECURSIVE ToDigits(_)
ToDigits(n) ==
    IF n < Kilo THEN <<n>> ELSE ToDigits(n \div Kilo) \o <<n % Kilo>>

----------------------------------------------------------------------------
(* libs/util.py: the colour helpers *)

print_green(s) == [color |-> "green", text |-> s]
print_yellow(s) == [color |-> "yellow", text |-> s]
print_red(s) == [color |-> "red", text |-> s]
plain(s) == [color |-> "none", text |-> s]

(* value is None (<<>>), or <<TRUE>> / <<FALSE>> *)
print_yes_no(value) ==
    IF IsNone(value) THEN print_yellow("Unknown")
    ELSE IF Val(value) THEN print_green("Yes") ELSE print_red("No")

print_no_yes(value) ==
    IF IsNone(value) THEN print_yellow("Unknown")
    ELSE IF Val(value) THEN print_red("Yes") ELSE print_green("No")

(* A faulty variant: the comparisons include the threshold *)
print_thresholds_inc_le(value, yellow, red) ==
    IF ~FloatGt(value, yellow) THEN [color |-> "green", hundredths |-> Fmt2f(value)]
    ELSE IF ~FloatGt(value, red) THEN [color |-> "yellow", hundredths |-> Fmt2f(value)]
    ELSE [color |-> "red", hundredths |-> Fmt2f(value)]

print_thresholds_inc(value, yellow, red) ==
    IF FloatLt(value, yellow) THEN [color |-> "green", hundredths |-> Fmt2f(value)]
    ELSE IF FloatLt(value, red) THEN [color |-> "yellow", hundredths |-> Fmt2f(value)]
    ELSE [color |-> "red", hundredths |-> Fmt2f(value)]

(* A faulty variant: the comparisons include the threshold *)
print_thresholds_dec_ge(value, green, yellow) ==
    IF ~FloatLt(value, green) THEN [color |-> "green", hundredths |-> Fmt2f(value)]
    ELSE IF ~FloatLt(value, yellow) THEN [color |-> "yellow", hundredths |-> Fmt2f(value)]
    ELSE [color |-> "red", hundredths |-> Fmt2f(value)]

print_thresholds_dec(value, green, yellow) ==
    IF FloatGt(value, green) THEN [color |-> "green", hundredths |-> Fmt2f(value)]
    ELSE IF FloatGt(value, yellow) THEN [color |-> "yellow", hundredths |-> Fmt2f(value)]
    ELSE [color |-> "red", hundredths |-> Fmt2f(value)]

----------------------------------------------------------------------------
(* Python built-ins used by the class *)

(* One effect of the run *)
Ev(kind, what, where, arg) == <<kind, what, where, arg>>

RECURSIVE SeqLess(_, _)
SeqLess(a, b) ==
    IF Len(b) = 0 THEN FALSE
    ELSE IF Len(a) = 0 THEN TRUE
    ELSE IF a[1] < b[1] THEN TRUE
    ELSE IF a[1] > b[1] THEN FALSE
    ELSE SeqLess(Tail(a), Tail(b))

(* Insert x into the sorted sequence s after every element whose key is    *)
(* not greater: the sort is stable, as Python's is.  key[e] is a sequence   *)
(* of integers compared lexicographically.                                  *)
RECURSIVE InsertSorted(_, _, _)
InsertSorted(s, x, kx) ==
    IF Len(s) = 0 THEN <<[e |-> x, k |-> kx]>>
    ELSE IF SeqLess(kx, s[Len(s)].k)
         THEN InsertSorted(SubSeq(s, 1, Len(s) - 1), x, kx) \o <<s[Len(s)]>>
         ELSE s \o <<[e |-> x, k |-> kx]>>

RECURSIVE SortPairs(_, _)
SortPairs(xs, ks) ==
    IF Len(xs) = 0 THEN <<>>
    ELSE InsertSorted(SortPairs(SubSeq(xs, 1, Len(xs) - 1), SubSeq(ks, 1, Len(ks) - 1)),
                      xs[Len(xs)], ks[Len(ks)])

(* sorted(xs, key=...) with ks[n] the key of xs[n] *)
sorted(xs, ks) == LET p == SortPairs(xs, ks) IN [n \in 1..Len(p) |-> p[n].e]

(* str.format with one argument.  A format string is the sequence of its   *)
(* pieces: a literal, the replacement field "{}", or a lone "}" which is    *)
(* an error ("Single '}' encountered in format string").                    *)
str_format(fmt, value) ==
    IF \E n \in 1..Len(fmt) : fmt[n] = "}"
    THEN [raised |-> "ValueError", text |-> <<>>]
    ELSE [raised |-> "",
          text |-> [n \in 1..Len(fmt) |-> IF fmt[n] = "{}" THEN value ELSE fmt[n]]]

(* s.split('.')[0] of a string given as its characters *)
RECURSIVE split_first(_)
split_first(s) ==
    IF Len(s) = 0 \/ s[1] = "." THEN <<>> ELSE <<s[1]>> \o split_first(Tail(s))

DigitChars == <<"0", "1", "2", "3", "4", "5", "6", "7", "8", "9">>
IsDigitChar(c) == \E d \in 1..10 : DigitChars[d] = c
DigitValue(c) == (CHOOSE d \in 1..10 : DigitChars[d] = c) - 1

RECURSIVE DecimalValue(_)
DecimalValue(s) ==
    IF Len(s) = 0 THEN 0
    ELSE DecimalValue(SubSeq(s, 1, Len(s) - 1)) * 10 + DigitValue(s[Len(s)])

(* int(s) *)
int(s) ==
    IF Len(s) > 0 /\ \A n \in 1..Len(s) : IsDigitChar(s[n])
    THEN [raised |-> "", value |-> DecimalValue(s)]
    ELSE [raised |-> "ValueError", value |-> 0]

----------------------------------------------------------------------------
(* libs/vsanclustercheck.py: the status colouring helpers.  value is an    *)
(* optional string; the result is [raised, text].                           *)

Returned(v) == [raised |-> "", value |-> v]
Raised(exc) == [raised |-> exc, value |-> <<>>]

unknown_status_fmt == <<"unknown status: ", "{}", "}">>

FormatRed(fmt, value) ==
    LET f == str_format(fmt, value)
    IN  IF f.raised # "" THEN Raised(f.raised) ELSE Returned(print_red(f.text))

color_cluster_status(value) ==
    IF IsNone(value) THEN Returned(plain("no status"))
    ELSE IF Val(value) = "green" THEN Returned(print_green(Val(value)))
    ELSE IF Val(value) = "red" THEN Returned(print_red(Val(value)))
    ELSE IF Val(value) = "yellow" THEN Returned(print_yellow(Val(value)))
    ELSE FormatRed(unknown_status_fmt, Val(value))

color_clomd_status(value) ==
    IF IsNone(value) THEN Returned(plain("no status"))
    ELSE IF Val(value) = "alive" THEN Returned(print_green(Val(value)))
    ELSE IF Val(value) = "abnormal" THEN Returned(print_red(Val(value)))
    ELSE IF Val(value) = "unknown" THEN Returned(print_yellow(Val(value)))
    ELSE FormatRed(unknown_status_fmt, Val(value))

(* The three list literals of __color_obj_health_status.  In the third the *)
(* comma after 'reducedavailabilitywithpolicypendingfailed' is missing, so  *)
(* Python joins it with the literal that follows.                           *)
obj_health_green == <<"datamove", "healthy">>
obj_health_yellow ==
    <<"nonavailabilityrelatedincompliance",
      "nonavailabilityrelatedincompliancewithpausedrebuild",
      "nonavailabilityrelatedincompliancewithpolicypending",
      "nonavailabilityrelatedreconfig",
      "reducedavailabilitywithactiverebuild",
      "reducedavailabilitywithnorebuild",
      "reducedavailabilitywithpolicypending",
      "reducedavailabilitywithnorebuilddelaytimer">>
obj_health_red ==
    <<"inaccessible",
      "nonavailabilityrelatedincompliance",
      "reducedavailabilitywithpausedrebuild",
      "reducedavailabilitywithpolicypendingfailedVsanObjectHealthState_Unknown">>

obj_health_unknown_fmt == <<"unknown status: ", "{}", "]">>

In(x, list) == \E n \in 1..Len(list) : list[n] = x

color_obj_health_status(value) ==
    IF IsNone(value) THEN Returned(plain("no status"))
    ELSE IF In(Val(value), obj_health_green) THEN Returned(print_green(Val(value)))
    ELSE IF In(Val(value), obj_health_yellow) THEN Returned(print_yellow(Val(value)))
    ELSE IF In(Val(value), obj_health_red) THEN Returned(print_red(Val(value)))
    ELSE FormatRed(obj_health_unknown_fmt, Val(value))

color_obj_compliance_status(value) ==
    IF IsNone(value) THEN Returned(plain("no status"))
    ELSE IF Val(value) = "compliant" THEN Returned(print_green(Val(value)))
    ELSE IF Val(value) = "nonCompliant" THEN Returned(print_red(Val(value)))
    ELSE IF Val(value) = "notApplicable" THEN Returned(plain(Val(value)))
    ELSE FormatRed(unknown_status_fmt, Val(value))

truncate_length == 30    \* ___truncate_vm_name(cls, value, length: int = 30)

(* ___truncate_vm_name: value is the sequence of the name's characters,    *)
(* a character being its code, and 0 the code of '.'.                       *)
Ellipsis == <<0, 0, 0>>
truncate_vm_name(value, length) ==
    IF Len(value) <= length THEN value
    ELSE SubSeq(value, 1, length - 3) \o Ellipsis

----------------------------------------------------------------------------
(* libs/vsanclustercheck.py: VsanClusterCheck.__init__                      *)
(*                                                                         *)
(* A call result is [raised |-> the exception that left the function or    *)
(* "", self |-> the object's attributes afterwards, trace |-> the effects   *)
(* in order].  self is a record whose fields are the attributes set so far. *)

(* The managed objects GetVsanVcMos returns, by key *)
VcMos ==
    [space |-> "vsan-cluster-space-report-system",
     health |-> "vsan-cluster-health-system",
     objects |-> "vsan-cluster-object-system"]

(* search_index.FindChild(datacenter.hostFolder, name): the cluster of     *)
(* that name in the datacenter's host folder, or None                       *)
FindChild(e, dc, name) ==
    IF name \in e.datacenters[dc] THEN Some([dc |-> dc, name |-> name]) ELSE None

(* the loop of __get_cluster_instance from datacenter dc on *)
RECURSIVE find_cluster_from(_, _, _)
find_cluster_from(e, dc, name) ==
    IF dc > Len(e.datacenters) THEN [value |-> None, trace |-> <<>>]
    ELSE LET cluster == FindChild(e, dc, name)
             call == <<Ev("call", "FindChild", "__get_cluster_instance", "")>>
         IN  IF ~IsNone(cluster) THEN [value |-> cluster, trace |-> call]
             ELSE LET r == find_cluster_from(e, dc + 1, name)
                  IN  [value |-> r.value, trace |-> call \o r.trace]

get_cluster_instance(self, e) ==
    LET r == find_cluster_from(e, 1, self.cluster_name)
    IN  [value |-> r.value,
         trace |-> <<Ev("call", "RetrieveContent", "__get_cluster_instance", "")>> \o r.trace]

(* A faulty variant of the version check: 5.x is let through *)
version_too_low_5(major) == major < MinApiMajor - 1

(* int(self.about_info.apiVersion.split('.')[0]) < 6 *)
version_too_low(major) == major < MinApiMajor

(* self.about_info.apiType != 'VirtualCenter' *)
not_virtual_center(apiType) == apiType # "VirtualCenter"

init(e, host, user, password, port, cluster, context) ==
    LET s0 == [host_name |-> host, ssl_context |-> context, cluster_name |-> cluster]
        connect == <<Ev("call", "SmartConnect", "__init__",
                        IF e.connect = "handle" THEN e.handle
                        ELSE IF e.connect = "none" THEN "None" ELSE "raise")>>
    IN
    IF e.connect = "raise"
    THEN [raised |-> "ConnectError", self |-> s0,
          trace |-> connect \o <<Ev("raise", "ConnectError", "__init__", "")>>]
    ELSE
    LET s1 == s0 @@ [si |-> IF e.connect = "handle" THEN Some(e.handle) ELSE None]
    IN
    IF ~Truthy(s1.si)
    THEN [raised |-> "ValueError", self |-> s1,
          trace |-> connect \o <<Ev("raise", "ValueError", "__init__", "")>>]
    ELSE
    LET s2 == s1 @@ [si_stub |-> <<"stub", Val(s1.si)>>,
                     about_info |-> [apiVersion |-> e.apiVersion, apiType |-> e.apiType]]
        major == int(split_first(s2.about_info.apiVersion))
    IN
    IF major.raised # "" \/ version_too_low(major.value)
    THEN [raised |-> "ValueError", self |-> s2,
          trace |-> connect \o <<Ev("raise", "ValueError", "__init__", "")>>]
    ELSE
    LET s3 == s2 @@ [api_version |-> e.vmodl]
        t3 == connect \o <<Ev("call", "GetLatestVmodlVersion", "__init__", "")>>
    IN
    IF not_virtual_center(s3.about_info.apiType)
    THEN [raised |-> "ValueError", self |-> s3,
          trace |-> t3 \o <<Ev("raise", "ValueError", "__init__", "")>>]
    ELSE
    LET found == get_cluster_instance(s3, e)
        s4 == s3 @@ [cluster_instance |-> found.value]
        t4 == t3 \o found.trace
    IN
    IF IsNone(s4.cluster_instance)
    THEN [raised |-> "ValueError", self |-> s4,
          trace |-> t4 \o <<Ev("raise", "ValueError", "__init__", "")>>]
    ELSE [raised |-> "", self |-> s4 @@ [vc_mos |-> VcMos],
          trace |-> t4 \o <<Ev("call", "GetVsanVcMos", "__init__", "")>>]

(* A faulty variant: the connection is released only by a fully built object *)
del_when_complete(self) ==
    IF "vc_mos" \notin DOMAIN self THEN <<>>
    ELSE <<Ev("call", "Disconnect", "__del__", Val(self.si))>>

(* __del__: Disconnect(self.si).  Reading self.si fails when __init__ was  *)
(* left before the attribute was set; the interpreter reports and ignores   *)
(* an exception of a finaliser.                                             *)
del(self) ==
    IF "si" \notin DOMAIN self
    THEN <<Ev("raise", "AttributeError", "__del__", "")>>
    ELSE <<Ev("call", "Disconnect", "__del__",
              IF IsNone(self.si) THEN "None" ELSE Val(self.si))>>

----------------------------------------------------------------------------
(* libs/vsanclustercheck.py: the reports.                                   *)
(*                                                                         *)
(* reply is what the remote query answers: [ok |-> FALSE] when the call     *)
(* raises a fault, [ok |-> TRUE, data |-> the snapshot] otherwise.  The     *)
(* result of a report is [raised, self, trace, out, data, writes]: out are  *)
(* the lines printed, data the snapshot as the report leaves it and writes  *)
(* the fields of the snapshot the report assigned to.                       *)

(* A piece of a report: what it printed, and the exception that ended it *)
Step(raised, effects, out) == [raised |-> raised, trace |-> effects, out |-> out]
Nothing == Step("", <<>>, <<>>)
Printed(section, where, line) == Step("", <<Ev("print", section, where, "")>>, <<line>>)
Failed(exc) == Step(exc, <<>>, <<>>)

(* a; b *)
Then(a, b) ==
    LET first == a
    IN  IF first.raised # "" THEN first
        ELSE LET second == b
             IN  Step(second.raised, first.trace \o second.trace, first.out \o second.out)

(* The report `where` made of the piece a *)
Report(where, self, a, data, writes) ==
    LET body == a
    IN  [raised |-> body.raised, self |-> self,
         trace |-> <<Ev("enter", where, where, "")>> \o body.trace \o
                   (IF body.raised # "" THEN <<Ev("raise", body.raised, where, "")>>
                    ELSE <<>>),
         out |-> body.out, data |-> data, writes |-> writes]

(* The remote call `what` of the report `where` *)
Query(what, where, reply) ==
    Step(IF reply.ok THEN "" ELSE "Fault", <<Ev("call", what, where, "")>>, <<>>)

(* A faulty variant of the division: a zero divisor gives 0 *)
true_div_guarded(a, b) ==
    IF b = 0 THEN Returned(Float(0, 1)) ELSE Returned(Float(a, b))

(* a / b of two ints *)
true_div(a, b) ==
    IF b = 0 THEN Raised("ZeroDivisionError") ELSE Returned(Float(a, b))

(* x * 100 *)
times100(x) == Float(x.num * 100, x.den)

cb(n) == convert_bytes(ToDigits(n))

capacity_header(self) ==
    Printed("header", "get_cluster_vsan_capacity",
            <<"vSAN capacity on host", self.host_name, self.cluster_name>>)

capacity_summary(d) ==
    LET total == d.totalCapacityB
        free == d.freeCapacityB
        free_q == true_div(free, total)
        used == total - free
        used_q == true_div(used, total)
        committed == d.uncommittedB
        committed_q == true_div(committed, total)
    IN  IF free_q.raised # "" THEN Failed(free_q.raised)
        ELSE IF used_q.raised # "" THEN Failed(used_q.raised)
        ELSE IF committed_q.raised # "" THEN Failed(committed_q.raised)
        ELSE Printed("Summary", "get_cluster_vsan_capacity",
                <<"Summary", cb(total),
                  cb(free), print_thresholds_dec(times100(free_q.value), dec_green, dec_yellow),
                  cb(used), print_thresholds_inc(times100(used_q.value), inc_yellow, inc_red),
                  cb(committed),
                  print_thresholds_inc(times100(committed_q.value), inc_yellow, inc_red)>>)

capacity_efficiency(d) ==
    IF ~Truthy(d.efficientCapacity)
    THEN Printed("Data Efficiency: Not Enabled", "get_cluster_vsan_capacity",
                 <<"Data Efficiency: Not Enabled">>)
    ELSE
    LET ec == Val(d.efficientCapacity)
        logical_q == true_div(ec.logicalCapacityUsed, ec.logicalCapacity)
        physical_q == true_div(ec.physicalCapacityUsed, ec.physicalCapacity)
    IN  IF logical_q.raised # "" THEN Failed(logical_q.raised)
        ELSE IF physical_q.raised # "" THEN Failed(physical_q.raised)
        ELSE Printed("Data Efficiency: Enabled", "get_cluster_vsan_capacity",
                <<"Data Efficiency: Enabled", cb(ec.dedupMetadataSize),
                  cb(ec.logicalCapacity), cb(ec.logicalCapacityUsed),
                  print_thresholds_inc(times100(logical_q.value), inc_yellow, inc_red),
                  cb(ec.physicalCapacity), cb(ec.physicalCapacityUsed),
                  print_thresholds_inc(times100(physical_q.value), inc_yellow, inc_red)>>)

RECURSIVE capacity_type_lines(_)
capacity_type_lines(objs) ==
    IF Len(objs) = 0 THEN Nothing
    ELSE Then(Printed("Type", "get_cluster_vsan_capacity",
                      <<"Type", objs[1].objType, cb(objs[1].usedB),
                        cb(objs[1].reservedCapacityB), cb(objs[1].overheadB),
                        cb(objs[1].overReservedB)>>),
              capacity_type_lines(Tail(objs)))

capacity_details(d) ==
    LET objs == d.spaceDetail.spaceUsageByObjectType
    IN  Then(Printed("Space usage details", "get_cluster_vsan_capacity",
                     <<"Space usage details">>),
             capacity_type_lines(sorted(objs, [n \in 1..Len(objs) |-> <<objs[n].objType>>])))

(* A faulty variant: the header is printed before the query is made *)
capacity_start_header_first(self, reply) ==
    Then(capacity_header(self),
         Query("VsanQuerySpaceUsage", "get_cluster_vsan_capacity", reply))

(* lines 205-209: the query, then the header *)
capacity_start(self, reply) ==
    Then(Query("VsanQuerySpaceUsage", "get_cluster_vsan_capacity", reply),
         capacity_header(self))

(* A faulty variant: the snapshot is kept on the object *)
get_cluster_vsan_capacity_caching(self, reply) ==
    LET keep == IF reply.ok THEN [capacity_data |-> reply.data] ELSE <<>>
    IN  Report("get_cluster_vsan_capacity", self @@ keep,
               IF reply.ok
               THEN Then(capacity_start(self, reply),
                    Then(capacity_summary(reply.data),
                    Then(capacity_efficiency(reply.data), capacity_details(reply.data))))
               ELSE capacity_start(self, reply),
               reply, {})

get_cluster_vsan_capacity(self, reply) ==
    Report("get_cluster_vsan_capacity", self,
           IF reply.ok
           THEN Then(capacity_start(self, reply),
                Then(capacity_summary(reply.data),
                Then(capacity_efficiency(reply.data), capacity_details(reply.data))))
           ELSE capacity_start(self, reply),
           reply, {})

(* get_health_status *)

health_header(self, fetch_from_cache, d) ==
    Printed("header", "get_health_status",
            <<"vSAN health status on host", self.host_name, self.cluster_name,
              IF fetch_from_cache THEN "Yes" ELSE "No", d.timestamp>>)

RECURSIVE health_host_lines(_)
health_host_lines(hosts) ==
    IF Len(hosts) = 0 THEN Nothing
    ELSE LET c == color_cluster_status(hosts[1].status)
         IN  IF c.raised # "" THEN Failed(c.raised)
             ELSE Then(Printed("Host", "get_health_status",
                               <<"Host", hosts[1].hostname, c.value>>),
                       health_host_lines(Tail(hosts)))

health_cluster(self, d) ==
    IF ~Truthy(d.clusterStatus) THEN Nothing
    ELSE
    LET cs == Val(d.clusterStatus)
        c == color_cluster_status(cs.status)
        hosts == cs.trackedHostsStatus
    IN  IF c.raised # "" THEN Failed(c.raised)
        ELSE Then(Printed("Cluster", "get_health_status",
                          <<"Cluster", self.cluster_name, c.value>>),
                  health_host_lines(
                      sorted(hosts, [n \in 1..Len(hosts) |-> <<hosts[n].hostname>>])))

RECURSIVE health_clomd_lines(_)
health_clomd_lines(hosts) ==
    IF Len(hosts) = 0 THEN Nothing
    ELSE LET c == color_clomd_status(hosts[1].clomdStat)
         IN  IF c.raised # "" THEN Failed(c.raised)
             ELSE Then(Printed("Host", "get_health_status",
                               <<"Host", hosts[1].hostname, c.value>>),
                       health_clomd_lines(Tail(hosts)))

health_clomd(d) ==
    IF ~Truthy(d.clomdLiveness) THEN Nothing
    ELSE
    LET cl == Val(d.clomdLiveness)
        hosts == cl.clomdLivenessResult
    IN  Then(Printed("CLOMD Liveness Issues", "get_health_status",
                     <<"CLOMD Liveness Issues", print_no_yes(cl.issueFound)>>),
             health_clomd_lines(
                 sorted(hosts, [n \in 1..Len(hosts) |-> <<hosts[n].hostname>>])))

RECURSIVE health_disk_lines(_)
health_disk_lines(disks) ==
    IF Len(disks) = 0 THEN Nothing
    ELSE Then(Printed("UUID", "get_health_status",
                      <<"UUID", disks[1].uuid, disks[1].fullness, disks[1].variance>>),
              health_disk_lines(Tail(disks)))

health_disks(d) ==
    IF ~Truthy(d.diskBalance) THEN Nothing
    ELSE
    LET disks == Val(d.diskBalance).disks
    IN  Then(Printed("Disk Balance", "get_health_status", <<"Disk Balance">>),
             health_disk_lines(
                 sorted(disks, [n \in 1..Len(disks) |-> <<disks[n].uuid>>])))

health_perfsvc(d) ==
    IF ~Truthy(d.perfsvcHealth) THEN Nothing
    ELSE
    LET ph == Val(d.perfsvcHealth)
    IN  Printed("Performance Service", "get_health_status",
                <<"Performance Service", print_yes_no(ph.enoughFreeSpace),
                  print_yes_no(ph.statsObjectConsistent),
                  print_no_yes(ph.verboseModeStatus)>>)

get_health_status(self, fetch_from_cache, reply) ==
    LET query == Query("VsanQueryVcClusterHealthSummary", "get_health_status", reply)
    IN  Report("get_health_status", self,
               IF reply.ok
               THEN Then(query,
                    Then(health_header(self, fetch_from_cache, reply.data),
                    Then(health_cluster(self, reply.data),
                    Then(health_clomd(reply.data),
                    Then(health_disks(reply.data), health_perfsvc(reply.data))))))
               ELSE query,
               reply, {})

(* get_cluster_hcl_info *)

(* ', '.join(xs): xs is an optional list *)
join(xs) == IF IsNone(xs) THEN Raised("TypeError") ELSE Returned(Val(xs))

hcl_header(self, fetch_from_cache, d) ==
    IF IsNone(d.hclInfo) THEN Failed("AttributeError")
    ELSE Printed("header", "get_cluster_hcl_info",
                 <<"vSAN HCL status on host", self.host_name, self.cluster_name,
                   IF fetch_from_cache THEN "Yes" ELSE "No", d.timestamp,
                   Val(d.hclInfo).hclDbAgeHealth, Val(d.hclInfo).hclDbLastUpdate>>)

RECURSIVE hcl_device_lines(_)
hcl_device_lines(devices) ==
    IF Len(devices) = 0 THEN Nothing
    ELSE
    LET device == devices[1]
        driver_versions == join(device.driverVersionsOnHcl)
        fw_versions == join(device.fwVersionOnHcl)
    IN  IF driver_versions.raised # "" THEN Failed(driver_versions.raised)
        ELSE IF fw_versions.raised # "" THEN Failed(fw_versions.raised)
        ELSE Then(Printed("Device", "get_cluster_hcl_info",
                          <<"Device", device.deviceName,
                            print_yes_no(device.deviceOnHcl),
                            print_yes_no(device.driverVersionSupported),
                            driver_versions.value,
                            print_yes_no(device.fwVersionSupported), fw_versions.value,
                            print_yes_no(device.fwVersionSupported), fw_versions.value>>),
                  hcl_device_lines(Tail(devices)))

RECURSIVE hcl_host_lines(_)
hcl_host_lines(hosts) ==
    IF Len(hosts) = 0 THEN Nothing
    ELSE Then(Printed("Checking Host", "get_cluster_hcl_info",
                      <<"Checking Host", hosts[1].hostname, hosts[1].releaseName>>),
         Then(Printed("Controllers", "get_cluster_hcl_info", <<"Controllers">>),
         Then(hcl_device_lines(hosts[1].controllers),
              hcl_host_lines(Tail(hosts)))))

hcl_hosts(d) ==
    LET hosts == Val(d.hclInfo).hostResults
    IN  hcl_host_lines(sorted(hosts, [n \in 1..Len(hosts) |-> <<hosts[n].hostname>>]))

(* A faulty variant: the host results are sorted in place (list.sort)      *)
(* instead of through sorted()                                              *)
get_cluster_hcl_info_sort_in_place(self, fetch_from_cache, reply) ==
    LET query == Query("VsanQueryVcClusterHealthSummary", "get_cluster_hcl_info", reply)
        touched == reply.ok /\ ~IsNone(reply.data.hclInfo)
        hosts == Val(reply.data.hclInfo).hostResults
    IN  Report("get_cluster_hcl_info", self,
               IF reply.ok
               THEN Then(query,
                    Then(hcl_header(self, fetch_from_cache, reply.data),
                         hcl_hosts(reply.data)))
               ELSE query,
               IF touched
               THEN [reply EXCEPT !.data.hclInfo[1].hostResults =
                        sorted(hosts, [n \in 1..Len(hosts) |-> <<hosts[n].hostname>>])]
               ELSE reply,
               IF touched THEN {<<"hclInfo", 1, "hostResults">>} ELSE {})

get_cluster_hcl_info(self, fetch_from_cache, reply) ==
    LET query == Query("VsanQueryVcClusterHealthSummary", "get_cluster_hcl_info", reply)
    IN  Report("get_cluster_hcl_info", self,
               IF reply.ok
               THEN Then(query,
                    Then(hcl_header(self, fetch_from_cache, reply.data),
                         hcl_hosts(reply.data)))
               ELSE query,
               reply, {})

(* get_cluster_vms.  A virtual machine is [moid, name]; two references are *)
(* equal when they name the same managed object.                            *)

SameRef(a, b) == a.moid = b.moid

(* the VMs of the hosts, in the order of the (sorted) hosts *)
RECURSIVE host_vms(_)
host_vms(hosts) ==
    IF Len(hosts) = 0 THEN <<>> ELSE hosts[1].vm \o host_vms(Tail(hosts))

(* __get_cluster_vms over the ComputeResource objects of the inventory *)
RECURSIVE cluster_vms_from(_, _)
cluster_vms_from(self, clusters) ==
    IF Len(clusters) = 0 THEN <<>>
    ELSE LET c == clusters[1]
             mine == self.cluster_name # "" /\ c.name = self.cluster_name
         IN  (IF mine
              THEN host_vms(sorted(c.host, [n \in 1..Len(c.host) |-> <<c.host[n].name>>]))
              ELSE <<>>)
             \o cluster_vms_from(self, Tail(clusters))

(* next((vm for vm in vms if obj_ident.vm == vm), None) *)
find_vm(vms, ref) ==
    IF IsNone(ref) \/ ~\E n \in 1..Len(vms) : SameRef(Val(ref), vms[n]) THEN None
    ELSE Some(vms[CHOOSE n \in 1..Len(vms) :
                    /\ SameRef(Val(ref), vms[n])
                    /\ \A m \in 1..(n - 1) : ~SameRef(Val(ref), vms[m])])

(* next((item for item in cos_objs_info if item.vsanObjectUuid == uuid), None) *)
find_info(infos, uuid) ==
    IF ~\E n \in 1..Len(infos) : infos[n].vsanObjectUuid = uuid THEN None
    ELSE Some(infos[CHOOSE n \in 1..Len(infos) :
                    /\ infos[n].vsanObjectUuid = uuid
                    /\ \A m \in 1..(n - 1) : infos[m].vsanObjectUuid # uuid])

(* The loop over cos_data.identities from identity k on: [raised, items,   *)
(* done], items the tuples appended to print_objs and done the number of    *)
(* identities whose vm field was assigned.                                  *)
RECURSIVE vms_loop(_, _, _, _)
vms_loop(idents, k, vms, infos) ==
    IF k > Len(idents) THEN [raised |-> "", items |-> <<>>, done |-> k - 1]
    ELSE
    LET vm == find_vm(vms, idents[k].vm)
        obj_info == find_info(infos, idents[k].uuid)
        vm_name == truncate_vm_name(IF Truthy(vm) THEN Val(vm).name ELSE <<>>,
                                    truncate_length)
    IN
    IF IsNone(obj_info) THEN [raised |-> "AttributeError", items |-> <<>>, done |-> k]
    ELSE
    LET health == color_obj_health_status(Val(obj_info).vsanHealth)
        compliance ==
            color_obj_compliance_status(Val(obj_info).spbmComplianceResult.complianceStatus)
    IN
    IF health.raised # "" THEN [raised |-> health.raised, items |-> <<>>, done |-> k]
    ELSE IF compliance.raised # ""
    THEN [raised |-> compliance.raised, items |-> <<>>, done |-> k]
    ELSE
    LET r == vms_loop(idents, k + 1, vms, infos)
    IN  [raised |-> r.raised,
         items |-> <<[vm_name |-> vm_name, obj_type |-> idents[k].type,
                      obj_uuid |-> idents[k].uuid, obj_health |-> health.value,
                      obj_compliance |-> compliance.value]>> \o r.items,
         done |-> r.done]

(* cos_data after obj_ident.vm = ... was executed for the first `done`     *)
(* identities                                                               *)
vms_assigned(d, vms, done) ==
    [d EXCEPT !.identities =
        [k \in 1..Len(d.identities) |->
            IF k <= done
            THEN [d.identities[k] EXCEPT !.vm = find_vm(vms, d.identities[k].vm)]
            ELSE d.identities[k]]]

RECURSIVE vms_health_list(_)
vms_health_list(details) ==
    IF Len(details) = 0 THEN Returned(<<>>)
    ELSE LET c == color_obj_health_status(details[1].health)
             r == vms_health_list(Tail(details))
         IN  IF c.raised # "" THEN Raised(c.raised)
             ELSE IF r.raised # "" THEN Raised(r.raised)
             ELSE Returned(<<c.value>> \o r.value)

RECURSIVE sum_objects(_)
sum_objects(details) ==
    IF Len(details) = 0 THEN 0 ELSE details[1].numObjects + sum_objects(Tail(details))

vms_header(self, d) ==
    LET cos_health == d.health.objectHealthDetail
        colours == vms_health_list(cos_health)
    IN  IF colours.raised # "" THEN Failed(colours.raised)
        ELSE Printed("header", "get_cluster_vms",
                     <<"vSAN object health status on host", self.host_name,
                       self.cluster_name, sum_objects(cos_health), colours.value>>)

RECURSIVE vms_object_lines(_)
vms_object_lines(items) ==
    IF Len(items) = 0 THEN Nothing
    ELSE Then(Printed("VM", "get_cluster_vms", items[1]), vms_object_lines(Tail(items)))

(* sorted(print_objs, key=lambda x: [x[0], x[1]]): the key is the name,    *)
(* then the type; -1 sorts before every character.                          *)
vms_objects(items) ==
    Then(Printed("vSAN objects", "get_cluster_vms", <<"vSAN objects">>),
         vms_object_lines(
             sorted(items, [n \in 1..Len(items) |->
                               items[n].vm_name \o <<-1, items[n].obj_type>>])))

(* reply.data is [identities |-> cos_data, infos |-> cos_objs_info]: the   *)
(* answers of VsanQueryObjectIdentities and VosQueryVsanObjectInformation;  *)
(* reply.ok2 tells whether the second query answers.                        *)
get_cluster_vms(self, reply, inventory) ==
    LET w == "get_cluster_vms"
        q1 == Query("VsanQueryObjectIdentities", w, reply)
    IN
    IF ~reply.ok THEN Report(w, self, q1, reply, {})
    ELSE
    LET d == reply.data.identities
        q2 == Query("VosQueryVsanObjectInformation", w, [ok |-> reply.ok2])
        head == Then(q1, Then(vms_header(self, d), q2))
    IN
    IF head.raised # "" THEN Report(w, self, head, reply, {})
    ELSE
    LET vms == cluster_vms_from(self, inventory)
        walk == Step("", <<Ev("call", "RetrieveContent", "__get_cluster_vms", ""),
                           Ev("call", "CreateContainerView", "__get_obj", "")>>, <<>>)
        loop == vms_loop(d.identities, 1, vms, reply.data.infos)
        after == [reply EXCEPT !.data.identities = vms_assigned(d, vms, loop.done)]
        body == IF loop.raised # "" THEN Failed(loop.raised) ELSE vms_objects(loop.items)
    IN  Report(w, self, Then(head, Then(walk, body)), after,
               {<<"identities", k, "vm">> : k \in 1..loop.done})

----------------------------------------------------------------------------
(* The inputs: the command line, the endpoint and what the vSAN services    *)
(* answer.                                                                  *)

(* The clusters in a datacenter's host folder *)
HostFolders == {{"VSAN-Cluster"}, {"Other"}}
ApiVersions == {<<"5", ".", "5">>, <<"6", ".", "7", ".", "0">>, <<"7", ".", "0">>}
DatacenterLists == UNION {[1..n -> HostFolders] : n \in 0..MaxDatacenters}

Endpoints ==
    [connect : {"raise", "none", "handle"},
     handle : {"si-1"},
     apiVersion : ApiVersions,
     apiType : {"VirtualCenter", "HostAgent"},
     vmodl : {"vim.version.version11"},
     datacenters : DatacenterLists]

CommandLines ==
    [argv_ok : BOOLEAN,                 \* the required --host and --user are given
     password_arg : BOOLEAN,            \* --password is given
     cluster_arg : {None, Some("Absent")}]

(* VsanQuerySpaceUsage *)
SpaceObject(t) ==
    [objType |-> t, usedB |-> 1536, reservedCapacityB |-> 0, overheadB |-> 512,
     overReservedB |-> 1024]

EfficientCapacities ==
    {[dedupMetadataSize |-> 1, logicalCapacity |-> l,
      logicalCapacityUsed |-> IF l = 0 THEN 0 ELSE 1024,
      physicalCapacity |-> p,
      physicalCapacityUsed |-> IF p = 0 THEN 0 ELSE 3072]
        : l \in {0, 4096}, p \in {0, 4096}} \ {[dedupMetadataSize |-> 1,
             logicalCapacity |-> 0, logicalCapacityUsed |-> 0,
             physicalCapacity |-> 0, physicalCapacityUsed |-> 0]}

CapacityData ==
    {d \in [totalCapacityB : {0, 2048},
            freeCapacityB : {0, 512},
            uncommittedB : {1024},
            efficientCapacity : {None} \cup {Some(ec) : ec \in EfficientCapacities},
            spaceDetail : {[spaceUsageByObjectType |-> <<>>],
                           [spaceUsageByObjectType |-> <<SpaceObject(2), SpaceObject(1)>>]}]
        : d.freeCapacityB <= d.totalCapacityB}

Fault == [ok |-> FALSE]
Answer(d) == [ok |-> TRUE, data |-> d]

CapacityReplies == {Fault} \cup {Answer(d) : d \in CapacityData}

(* VsanQueryVcClusterHealthSummary with the fields of get_health_status *)
ClusterStatuses ==
    {None,
     Some([status |-> None, trackedHostsStatus |-> <<>>]),
     Some([status |-> Some("green"),
           trackedHostsStatus |-> <<[hostname |-> 2, status |-> Some("red")],
                                    [hostname |-> 1, status |-> Some("yellow")]>>]),
     Some([status |-> Some("yellow"),
           trackedHostsStatus |-> <<[hostname |-> 2, status |-> Some("unknown")],
                                    [hostname |-> 1, status |-> Some("green")]>>])}

ClomdLivenesses ==
    {None,
     Some([issueFound |-> Some(FALSE),
           clomdLivenessResult |-> <<[hostname |-> 2, clomdStat |-> Some("alive")],
                                     [hostname |-> 1, clomdStat |-> Some("abnormal")]>>]),
     Some([issueFound |-> None,
           clomdLivenessResult |-> <<[hostname |-> 1, clomdStat |-> Some("dead")]>>])}

DiskBalances ==
    {None,
     Some([disks |-> <<[uuid |-> 2, fullness |-> 40, variance |-> 3],
                       [uuid |-> 1, fullness |-> 35, variance |-> 2]>>])}

PerfsvcHealths ==
    {None,
     Some([enoughFreeSpace |-> Some(TRUE), statsObjectConsistent |-> Some(FALSE),
           verboseModeStatus |-> None])}

HealthData ==
    {d \in [timestamp : {"t"}, clusterStatus : ClusterStatuses,
            clomdLiveness : ClomdLivenesses,
            diskBalance : DiskBalances, perfsvcHealth : PerfsvcHealths]
        : /\ IsNone(d.diskBalance) = IsNone(d.clomdLiveness)
          /\ IsNone(d.perfsvcHealth) = IsNone(d.clomdLiveness)}

HealthReplies == {Fault} \cup {Answer(d) : d \in HealthData}

(* VsanQueryVcClusterHealthSummary with the fields of get_cluster_hcl_info *)
Controller(versions) ==
    [deviceName |-> "vmhba0", deviceOnHcl |-> Some(TRUE),
     driverVersionSupported |-> Some(FALSE), driverVersionsOnHcl |-> versions,
     fwVersionSupported |-> None, fwVersionOnHcl |-> Some(<<"1.0">>)]

HclHost(n, versions) ==
    [hostname |-> n, releaseName |-> "ESXi", controllers |-> <<Controller(versions)>>]

HclInfos ==
    {None} \cup
    {Some([hclDbAgeHealth |-> "green", hclDbLastUpdate |-> "t", hostResults |-> hs])
        : hs \in {<<>>,
                  <<HclHost(1, Some(<<"2.0", "2.1">>))>>,
                  <<HclHost(2, Some(<<>>)), HclHost(1, None)>>}}

HclData == [timestamp : {"t"}, hclInfo : HclInfos]

HclReplies == {Fault} \cup {Answer(d) : d \in HclData}

(* VsanQueryObjectIdentities, VosQueryVsanObjectInformation and the         *)
(* inventory get_cluster_vms walks                                          *)
LongName == [n \in 1..(truncate_length + 1) |-> 3]
VmA == [moid |-> 1, name |-> <<2, 1>>]
VmB == [moid |-> 2, name |-> LongName]
VmC == [moid |-> 3, name |-> <<1>>]

Inventory ==
    <<[name |-> "Other", host |-> <<[name |-> 1, vm |-> <<VmC>>]>>],
      [name |-> "VSAN-Cluster",
       host |-> <<[name |-> 2, vm |-> <<VmB>>], [name |-> 1, vm |-> <<VmA>>]>>]>>

Identity(n, vm) == [uuid |-> n, type |-> n % 2, vm |-> vm]
ObjectInfo(n, health, status) ==
    [vsanObjectUuid |-> n, vsanHealth |-> health,
     spbmComplianceResult |-> [complianceStatus |-> status]]

IdentityLists ==
    {<<>>,
     <<Identity(1, Some(VmB)), Identity(2, Some(VmA)), Identity(3, None)>>,
     <<Identity(1, Some(VmC)), Identity(2, Some(VmA))>>}

InfoLists ==
    {<<ObjectInfo(1, Some("healthy"), Some("compliant")),
       ObjectInfo(2, Some("inaccessible"), Some("nonCompliant")),
       ObjectInfo(3, None, Some("notApplicable"))>>,
     <<ObjectInfo(1, Some("healthy"), Some("compliant"))>>,
     <<ObjectInfo(1, Some("datamove"), Some("outOfDate")),
       ObjectInfo(2, Some("healthy"), None)>>}

VmsData ==
    [identities :
        [health : {[objectHealthDetail |->
                       <<[numObjects |-> 2, health |-> Some("healthy")],
                         [numObjects |-> 1, health |-> Some("inaccessible")]>>]},
         identities : IdentityLists],
     infos : InfoLists]

VmsReplies ==
    {Fault} \cup {[ok |-> TRUE, ok2 |-> TRUE, data |-> d] : d \in VmsData}
    \cup {[ok |-> TRUE, ok2 |-> FALSE, data |-> d] : d \in {x \in VmsData :
                Len(x.identities.identities) = 0 /\ Len(x.infos) = 1}}

----------------------------------------------------------------------------
(* queryvsancluster.py: one run of main()                                   *)
(*                                                                         *)
(* pc is main's position, args its local variables, obj the attributes of   *)
(* the VsanClusterCheck object and life that object's state: "none" before  *)
(* it is created, "alive", "finalized" after __del__.  last is the report   *)
(* call made last.                                                          *)

NoCall == [report |-> "none"]
Call(name, cached, reply, r) ==
    [report |-> name, nth |-> ncalls + 1, cached |-> cached, reply |-> reply, raised |-> r.raised, out |-> r.out,
     data |-> r.data, writes |-> r.writes, self |-> r.self]

NoUtil == [fn |-> "none"]

Init ==
    /\ pc = "start"
    /\ args = <<>>
    /\ env \in [cli : CommandLines, endpoint : Endpoints]
    /\ obj = <<>>
    /\ life = "none"
    /\ trace = <<>>
    /\ last = NoCall
    /\ prev = NoCall
    /\ ncalls = 0
    /\ u = NoUtil

(* A faulty variant: main goes on after a report raised *)
main_after_swallow(raised, next) == next

(* main has no try: an exception raised by a call leaves main *)
main_after(raised, next) == IF raised = "" THEN next ELSE "raised"

(* get_args(): argparse leaves the process when a required argument is     *)
(* missing                                                                  *)
GetArgs ==
    /\ pc = "start"
    /\ IF env.cli.argv_ok
       THEN /\ args' = [host |-> "vcenter", port |-> DefaultPort, user |-> "admin",
                        password |-> IF env.cli.password_arg THEN Some("secret") ELSE None,
                        cluster_name |-> IF IsNone(env.cli.cluster_arg) THEN "VSAN-Cluster"
                                         ELSE Val(env.cli.cluster_arg)]
            /\ pc' = "args"
            /\ trace' = trace
       ELSE /\ args' = args
            /\ pc' = "exit"
            /\ trace' = trace \o <<Ev("raise", "SystemExit", "get_args", "")>>
    /\ UNCHANGED <<env, obj, life, last, prev, ncalls, u>>

(* main, lines 24-31: the password and the SSL context *)
Prepare ==
    /\ pc = "args"
    /\ args' = [args EXCEPT !.password = IF Truthy(@) THEN @ ELSE Some("typed")]
               @@ [context |-> [check_hostname |-> FALSE, verify_mode |-> "CERT_NONE"]]
    /\ trace' = IF Truthy(args.password) THEN trace
                ELSE trace \o <<Ev("call", "getpass", "main", "")>>
    /\ pc' = "ready"
    /\ UNCHANGED <<env, obj, life, last, prev, ncalls, u>>

(* vcc = VsanClusterCheck(...) *)
Construct ==
    /\ pc = "ready"
    /\ LET r == init(env.endpoint, args.host, args.user, Val(args.password), args.port,
                     args.cluster_name, args.context)
       IN  /\ obj' = r.self
           /\ trace' = trace \o r.trace
           /\ pc' = main_after(r.raised, "constructed")
    /\ life' = "alive"
    /\ UNCHANGED <<args, env, last, prev, ncalls, u>>

(* vcc.get_cluster_vsan_capacity() *)
Capacity ==
    /\ pc = "constructed"
    /\ \E reply \in CapacityReplies :
         LET r == get_cluster_vsan_capacity(obj, reply)
         IN  /\ obj' = r.self
             /\ trace' = trace \o r.trace
             /\ last' = Call("get_cluster_vsan_capacity", FALSE, reply, r)
             /\ pc' = main_after(r.raised, "capacity_done")
    /\ ncalls' = ncalls + 1
    /\ UNCHANGED <<args, env, life, prev, u>>

(* vcc.get_health_status() *)
Health ==
    /\ pc = "capacity_done"
    /\ \E reply \in HealthReplies :
         LET r == get_health_status(obj, FALSE, reply)
         IN  /\ obj' = r.self
             /\ trace' = trace \o r.trace
             /\ last' = Call("get_health_status", FALSE, reply, r)
             /\ pc' = main_after(r.raised, "health_done")
    /\ ncalls' = ncalls + 1
    /\ UNCHANGED <<args, env, life, prev, u>>

(* vcc.get_cluster_hcl_info(), after which main returns *)
Hcl ==
    /\ pc = "health_done"
    /\ \E reply \in HclReplies :
         LET r == get_cluster_hcl_info(obj, FALSE, reply)
         IN  /\ obj' = r.self
             /\ trace' = trace \o r.trace
             /\ last' = Call("get_cluster_hcl_info", FALSE, reply, r)
             /\ pc' = main_after(r.raised, "returned")
    /\ ncalls' = ncalls + 1
    /\ UNCHANGED <<args, env, life, prev, u>>

(* The object's last reference goes away once main is left: __del__ runs *)
Finalize ==
    /\ pc \in {"returned", "raised"}
    /\ life = "alive"
    /\ trace' = trace \o del(obj)
    /\ life' = "finalized"
    /\ pc' = "exit"
    /\ UNCHANGED <<args, env, obj, last, prev, ncalls, u>>

Next == GetArgs \/ Prepare \/ Construct \/ Capacity \/ Health \/ Hcl \/ Finalize

Spec == Init /\ [][Next]_vars

----------------------------------------------------------------------------
(* A client of the class: it holds a constructed VsanClusterCheck object    *)
(* and calls the four reports in any order, any number of times (up to      *)
(* MaxCalls).  last is the call made last and prev the first call, once a   *)
(* second one was made; trace holds the effects of the last call.           *)

ClientArgs ==
    [host |-> "vcenter", port |-> DefaultPort, user |-> "admin", password |-> "secret",
     cluster_name |-> "VSAN-Cluster",
     context |-> [check_hostname |-> FALSE, verify_mode |-> "CERT_NONE"]]

construct(e) ==
    init(e, ClientArgs.host, ClientArgs.user, ClientArgs.password, ClientArgs.port,
         ClientArgs.cluster_name, ClientArgs.context)

InitClient ==
    /\ pc = "client"
    /\ args = ClientArgs
    /\ env \in {x \in [cli : {[argv_ok |-> TRUE, password_arg |-> TRUE,
                               cluster_arg |-> None]},
                       endpoint : Endpoints]
                  : Len(x.endpoint.datacenters) = 1 /\ construct(x.endpoint).raised = ""}
    /\ obj = construct(env.endpoint).self
    /\ life = "alive"
    /\ trace = construct(env.endpoint).trace
    /\ last = NoCall
    /\ prev = NoCall
    /\ ncalls = 0
    /\ u = NoUtil

Called(name, cached, reply, r) ==
    /\ obj' = r.self
    /\ trace' = r.trace
    /\ last' = Call(name, cached, reply, r)
    /\ prev' = IF prev.report = "none" THEN last ELSE prev
    /\ ncalls' = ncalls + 1
    /\ UNCHANGED <<pc, args, env, life, u>>

ClientCapacity ==
    /\ pc = "client" /\ ncalls < MaxCalls
    /\ \E reply \in CapacityReplies :
         LET r == get_cluster_vsan_capacity(obj, reply)
         IN  Called("get_cluster_vsan_capacity", FALSE, reply, r)

ClientHealth ==
    /\ pc = "client" /\ ncalls < MaxCalls
    /\ \E reply \in HealthReplies, cached \in BOOLEAN :
         LET r == get_health_status(obj, cached, reply)
         IN  Called("get_health_status", cached, reply, r)

ClientHcl ==
    /\ pc = "client" /\ ncalls < MaxCalls
    /\ \E reply \in HclReplies, cached \in BOOLEAN :
         LET r == get_cluster_hcl_info(obj, cached, reply)
         IN  Called("get_cluster_hcl_info", cached, reply, r)

ClientVms ==
    /\ pc = "client" /\ ncalls < MaxCalls
    /\ \E reply \in VmsReplies :
         LET r == get_cluster_vms(obj, reply, Inventory)
         IN  Called("get_cluster_vms", FALSE, reply, r)

NextClient == ClientCapacity \/ ClientHealth \/ ClientHcl \/ ClientVms

SpecClient == InitClient /\ [][NextClient]_vars

----------------------------------------------------------------------------
(* The pure helpers of libs/util.py applied to inputs drawn from bounded    *)
(* sets.  u is [fn, nb_bytes or value, done, result].                        *)

DigitSet == {0, 1, 512, 1023}

(* Byte counts of up to MaxDigits base-1024 digits that a double holds      *)
(* exactly: from the sixth digit on (2^50 and more) the digits are zero.    *)
ByteCounts ==
    {ds \in UNION {[1..n -> DigitSet] : n \in 1..MaxDigits} :
        /\ Len(ds) > 1 => ds[1] # 0
        /\ \A k \in 6..Len(ds) : ds[k] = 0}

(* Percentages 0, 1/4, 2/4, ... up to MaxPct *)
Percentages == {Float(n, 4) : n \in 0..(4 * MaxPct)}

NoResult == [none |-> TRUE]

(* The status strings the service may report: the values the helpers name,  *)
(* the object health states of the API, and values no helper knows.         *)
StatusStrings ==
    {"green", "red", "yellow", "alive", "abnormal", "unknown",
     "compliant", "nonCompliant", "notApplicable", "blue", "dead", "outOfDate"}
    \cup {obj_health_green[n] : n \in DOMAIN obj_health_green}
    \cup {obj_health_yellow[n] : n \in DOMAIN obj_health_yellow}
    \cup {"inaccessible", "reducedavailabilitywithpausedrebuild",
          "reducedavailabilitywithpolicypendingfailed", "VsanObjectHealthState_Unknown"}

Statuses == {None} \cup {Some(v) : v \in StatusStrings}

ColorHelpers ==
    {"color_cluster_status", "color_clomd_status", "color_obj_health_status",
     "color_obj_compliance_status"}

UtilInputs ==
    {[fn |-> "convert_bytes", nb_bytes |-> ds, value |-> Float(0, 4), status |-> None,
      done |-> FALSE, result |-> NoResult] : ds \in ByteCounts}
    \cup {[fn |-> f, nb_bytes |-> <<0>>, value |-> x, status |-> None, done |-> FALSE,
           result |-> NoResult]
        : f \in {"print_thresholds_inc", "print_thresholds_dec"}, x \in Percentages}
    \cup {[fn |-> f, nb_bytes |-> <<0>>, value |-> Float(0, 4), status |-> v, done |-> FALSE,
           result |-> NoResult]
        : f \in ColorHelpers, v \in Statuses}

InitUtil ==
    /\ pc = "util"
    /\ args = <<>>
    /\ env = <<>>
    /\ obj = <<>>
    /\ life = "none"
    /\ trace = <<>>
    /\ last = NoCall
    /\ prev = NoCall
    /\ ncalls = 0
    /\ u \in UtilInputs

Applied(result) ==
    /\ u' = [u EXCEPT !.done = TRUE, !.result = result]
    /\ UNCHANGED <<pc, args, env, obj, life, trace, last, prev, ncalls>>

ApplyConvertBytes ==
    /\ u.fn = "convert_bytes" /\ ~u.done
    /\ Applied(convert_bytes(u.nb_bytes))

ApplyThresholdsInc ==
    /\ u.fn = "print_thresholds_inc" /\ ~u.done
    /\ Applied(print_thresholds_inc(u.value, inc_yellow, inc_red))

ApplyThresholdsDec ==
    /\ u.fn = "print_thresholds_dec" /\ ~u.done
    /\ Applied(print_thresholds_dec(u.value, dec_green, dec_yellow))

ApplyColorClusterStatus ==
    /\ u.fn = "color_cluster_status" /\ ~u.done
    /\ Applied(color_cluster_status(u.status))

ApplyColorClomdStatus ==
    /\ u.fn = "color_clomd_status" /\ ~u.done
    /\ Applied(color_clomd_status(u.status))

ApplyColorObjHealthStatus ==
    /\ u.fn = "color_obj_health_status" /\ ~u.done
    /\ Applied(color_obj_health_status(u.status))

ApplyColorObjComplianceStatus ==
    /\ u.fn = "color_obj_compliance_status" /\ ~u.done
    /\ Applied(color_obj_compliance_status(u.status))

NextUtil ==
    \/ ApplyConvertBytes \/ ApplyThresholdsInc \/ ApplyThresholdsDec
    \/ ApplyColorClusterStatus \/ ApplyColorClomdStatus
    \/ ApplyColorObjHealthStatus \/ ApplyColorObjComplianceStatus

SpecUtil == InitUtil /\ [][NextUtil]_vars

----------------------------------------------------------------------------
(* Properties of a run of main (Spec)                                       *)

Kind(e) == e[1]
What(e) == e[2]
Where(e) == e[3]
Arg(e) == e[4]

IsCall(e, what) == Kind(e) = "call" /\ What(e) = what
CallCount(what) == Cardinality({k \in DOMAIN trace : IsCall(trace[k], what)})

MainReports == <<"get_cluster_vsan_capacity", "get_health_status", "get_cluster_hcl_info">>
QueryNames == {"VsanQuerySpaceUsage", "VsanQueryVcClusterHealthSummary"}

(* The constructor has been run *)
Constructed == life # "none"

(* The four conditions under which the constructor refuses the endpoint *)
NoHandle == env.endpoint.connect # "handle"
MajorBelowSix ==
    LET major == int(split_first(env.endpoint.apiVersion))
    IN  major.raised = "" /\ major.value < 6
NotVirtualCenter == env.endpoint.apiType # "VirtualCenter"
ClusterAbsent ==
    \A dc \in DOMAIN env.endpoint.datacenters :
        args.cluster_name \notin env.endpoint.datacenters[dc]

CtorRaisedAt(k) == k \in DOMAIN trace /\ Kind(trace[k]) = "raise" /\ Where(trace[k]) = "__init__"

(* C1: when SmartConnect gives no handle, or the API major version is       *)
(* below 6, or the endpoint is not a VirtualCenter, or no datacenter holds   *)
(* the cluster, the constructor raises; after that there is no connect, no   *)
(* cluster lookup, no GetVsanVcMos and no query, SmartConnect was called at  *)
(* most once, and main ends without starting a report.                       *)
C1_ConstructorFailsFast ==
    (Constructed /\ (NoHandle \/ MajorBelowSix \/ NotVirtualCenter \/ ClusterAbsent)) =>
        /\ pc \in {"raised", "exit"}
        /\ CallCount("SmartConnect") <= 1
        /\ \A k \in DOMAIN trace : Kind(trace[k]) # "enter" /\ ~IsCall(trace[k], "GetVsanVcMos")
        /\ \E k \in DOMAIN trace :
              /\ CtorRaisedAt(k)
              /\ \A j \in DOMAIN trace :
                    (j > k /\ Kind(trace[j]) = "call") => What(trace[j]) = "Disconnect"

(* C1, witness: a run that connected to an ESXi host (not a VirtualCenter)  *)
(* of version 6 or later and has ended                                       *)
C1_Witness ==
    /\ pc = "exit" /\ Constructed
    /\ ~NoHandle /\ ~MajorBelowSix /\ NotVirtualCenter
    /\ \E k \in DOMAIN trace : CtorRaisedAt(k)

(* The handle SmartConnect returned in this run, if it returned one *)
HandleReturned ==
    \E k \in DOMAIN trace : IsCall(trace[k], "SmartConnect") /\ Arg(trace[k]) = env.endpoint.handle

(* Disconnect is called exactly once, on the handle SmartConnect returned,  *)
(* and no call follows it                                                    *)
ReleasedOnce ==
    /\ CallCount("Disconnect") = 1
    /\ \E k \in DOMAIN trace :
          /\ IsCall(trace[k], "Disconnect")
          /\ Arg(trace[k]) = env.endpoint.handle
          /\ \A j \in DOMAIN trace : Kind(trace[j]) = "call" => j <= k

C13_Original ==
    \A k \in DOMAIN trace :
        Where(trace[k]) = "__del__" =>
            /\ HandleReturned
            /\ IsCall(trace[k], "Disconnect")
            /\ Arg(trace[k]) = env.endpoint.handle

(* The names of the reports started, in order *)
RECURSIVE EnteredIn(_)
EnteredIn(t) ==
    IF Len(t) = 0 THEN <<>>
    ELSE (IF Kind(t[1]) = "enter" THEN <<What(t[1])>> ELSE <<>>) \o EnteredIn(Tail(t))

IsPrefix(a, b) == Len(a) <= Len(b) /\ \A n \in 1..Len(a) : a[n] = b[n]

(* C3: no query is made before SmartConnect returned a handle and the       *)
(* cluster lookup returned a cluster; main starts the reports in the order   *)
(* capacity, health, HCL; and a report prints only after its query           *)
(* returned.                                                                 *)
C3_ConnectLookupQueryPrint ==
    /\ \A j \in DOMAIN trace :
          (Kind(trace[j]) = "call" /\ What(trace[j]) \in QueryNames) =>
              /\ "cluster_instance" \in DOMAIN obj /\ ~IsNone(obj.cluster_instance)
              /\ \E i, k \in 1..(j - 1) :
                    /\ i < k
                    /\ IsCall(trace[i], "SmartConnect")
                    /\ Arg(trace[i]) = env.endpoint.handle
                    /\ IsCall(trace[k], "FindChild")
    /\ IsPrefix(EnteredIn(trace), MainReports)
    /\ \A j \in DOMAIN trace :
          Kind(trace[j]) = "print" =>
              \E k \in 1..(j - 1) :
                  /\ Kind(trace[k]) = "call" /\ What(trace[k]) \in QueryNames
                  /\ Where(trace[k]) = Where(trace[j])
                  /\ \A m \in k..j : Kind(trace[m]) # "raise"

(* C3, witness: a run in which the three reports printed *)
C3_Witness ==
    /\ pc = "exit"
    /\ EnteredIn(trace) = MainReports
    /\ \A n \in DOMAIN MainReports :
          \E j \in DOMAIN trace : Kind(trace[j]) = "print" /\ Where(trace[j]) = MainReports[n]

----------------------------------------------------------------------------
(* Properties of the reports under any client (SpecClient)                  *)

ObjectFields ==
    {"si", "si_stub", "about_info", "api_version", "cluster_instance", "vc_mos",
     "host_name", "cluster_name", "ssl_context"}

(* The object is as the constructor left it *)
ObjectAsConstructed == DOMAIN obj = ObjectFields /\ obj = construct(env.endpoint).self

SameCall(a, b) ==
    /\ a.report # "none" /\ a.report = b.report
    /\ a.cached = b.cached /\ a.reply = b.reply

(* C4: a report leaves every field of the VsanClusterCheck object           *)
(* unchanged, so two calls of a report that get the same snapshot print the  *)
(* same output, whatever was called between them.                            *)
C4_ReportsStateless ==
    /\ ObjectAsConstructed
    /\ SameCall(prev, last) => (prev.out = last.out /\ prev.raised = last.raised)

(* C4, witness: a report is called first and third, with another call       *)
(* between, gets the same snapshot both times and prints                     *)
C4_Witness ==
    /\ SameCall(prev, last)
    /\ prev.nth = 1 /\ last.nth = 3
    /\ last.raised = "" /\ Len(last.out) > 1

(* The report assigned to no field of the snapshot *)
SnapshotUntouched == last.writes = {} /\ last.data = last.reply

OnlyVmAssigned ==
    \/ ~last.reply.ok /\ SnapshotUntouched
    \/ /\ last.reply.ok
       /\ LET before == last.reply.data.identities.identities
              after == last.data.data.identities.identities
          IN  /\ Len(after) = Len(before)
              /\ [last.data EXCEPT !.data.identities.identities = before] = last.reply
              /\ last.writes \subseteq {<<"identities", k, "vm">> : k \in DOMAIN before}
              /\ \A k \in DOMAIN before :
                    /\ [after[k] EXCEPT !.vm = before[k].vm] = before[k]
                    /\ <<"identities", k, "vm">> \notin last.writes => after[k] = before[k]
                    /\ \/ IsNone(after[k].vm)
                       \/ /\ ~IsNone(before[k].vm)
                          /\ SameRef(Val(after[k].vm), Val(before[k].vm))

----------------------------------------------------------------------------
(* Properties of the helpers of libs/util.py (SpecUtil)                     *)

(* 1024^i <= n, n given by its base-1024 digits *)
PowerAtMost(i, ds) == ds # <<0>> /\ Len(ds) >= i + 1

(* The largest i in 0..5 with 1024^i <= n, and 0 when there is none *)
LargestScale(ds) ==
    IF \E i \in 0..5 : PowerAtMost(i, ds)
    THEN CHOOSE i \in 0..5 : PowerAtMost(i, ds) /\ \A j \in (i + 1)..5 : ~PowerAtMost(j, ds)
    ELSE 0

(* C6: convert_bytes returns the suffix of index i, the largest i in 0..5   *)
(* with 1024^i <= n (0 when n < 1024), with the value n / 1024^i; i never    *)
(* exceeds 5 and at most 5 divisions are made.                               *)
C6_PowerOf1024Scaling ==
    (u.fn = "convert_bytes" /\ u.done) =>
        /\ u.result.i = LargestScale(u.nb_bytes)
        /\ u.result.i <= 5
        /\ u.result.suffix = <<"B", "KB", "MB", "GB", "TB", "PB">>[u.result.i + 1]
        /\ Len(u.result.value.lo) = u.result.i
        /\ u.result.value.hi \o u.result.value.lo = u.nb_bytes

(* C6, witness: a count of 1024^6 or more was converted and came out in PB *)
C6_Witness ==
    /\ u.fn = "convert_bytes" /\ u.done
    /\ Len(u.nb_bytes) = 7
    /\ u.result.suffix = "PB"

(* C11: for a byte count below 1024^6 the number convert_bytes prints,      *)
(* rounded to two decimals, is below 1024.                                   *)
C11_Original ==
    (u.fn = "convert_bytes" /\ u.done /\ Len(u.nb_bytes) <= 6) => u.result.int < Kilo

(* What a status helper returns for a value it names: the value in colour *)
Coloured(color, value) == [color |-> color, text |-> value]

(* The red 'unknown status: <value>' string *)
UnknownStatus(value) == print_red(<<"unknown status: ", value>>)

(* The colour each of the three helpers gives to the values it names *)
NamedColor(fn, v) ==
    IF fn = "color_cluster_status"
    THEN (IF v = "green" THEN "green" ELSE IF v = "red" THEN "red"
          ELSE IF v = "yellow" THEN "yellow" ELSE "")
    ELSE IF fn = "color_clomd_status"
    THEN (IF v = "alive" THEN "green" ELSE IF v = "abnormal" THEN "red"
          ELSE IF v = "unknown" THEN "yellow" ELSE "")
    ELSE (IF v = "compliant" THEN "green" ELSE IF v = "nonCompliant" THEN "red"
          ELSE IF v = "notApplicable" THEN "none" ELSE "")

(* C12: __color_cluster_status, __color_clomd_status and                    *)
(* __color_obj_compliance_status never raise: None gives 'no status', a      *)
(* value the helper names gives that value in its colour, and any other      *)
(* value gives the red string 'unknown status: <value>'.                     *)
C12_Original ==
    (/\ u.done
     /\ u.fn \in {"color_cluster_status", "color_clomd_status",
                  "color_obj_compliance_status"})
    => /\ u.result.raised = ""
       /\ IF IsNone(u.status) THEN u.result.value = plain("no status")
          ELSE IF NamedColor(u.fn, Val(u.status)) # ""
               THEN u.result.value = Coloured(NamedColor(u.fn, Val(u.status)), Val(u.status))
               ELSE u.result.value = UnknownStatus(Val(u.status))

(* The object health states by the colour of the list that names them *)
NamedGreen == {"datamove", "healthy"}
NamedYellow == {obj_health_yellow[n] : n \in DOMAIN obj_health_yellow}
NamedRed ==
    {"inaccessible", "nonavailabilityrelatedincompliance",
     "reducedavailabilitywithpausedrebuild", "reducedavailabilitywithpolicypendingfailed",
     "VsanObjectHealthState_Unknown"}

(* C14: __color_obj_health_status returns every state its lists name under  *)
(* its own name in the colour of the list naming it (green, yellow, red);    *)
(* no named state gets the 'unknown status' text and none has two colours.   *)
C14_Original ==
    (u.done /\ u.fn = "color_obj_health_status" /\ ~IsNone(u.status)) =>
        /\ Val(u.status) \in NamedGreen => u.result = Returned(print_green(Val(u.status)))
        /\ Val(u.status) \in NamedYellow => u.result = Returned(print_yellow(Val(u.status)))
        /\ Val(u.status) \in NamedRed => u.result = Returned(print_red(Val(u.status)))

(* C7: print_thresholds_inc picks green exactly below 60, yellow exactly    *)
(* from 60 to below 80 and red exactly from 80 on.                           *)
C7_ThresholdsInc ==
    (u.fn = "print_thresholds_inc" /\ u.done) =>
        /\ u.result.color \in {"green", "yellow", "red"}
        /\ u.result.color = "green" <=> u.value.num < 60 * u.value.den
        /\ u.result.color = "yellow" <=>
              (u.value.num >= 60 * u.value.den /\ u.value.num < 80 * u.value.den)
        /\ u.result.color = "red" <=> u.value.num >= 80 * u.value.den

(* C7, witness: the value 60 was coloured yellow *)
C7_Witness ==
    /\ u.fn = "print_thresholds_inc" /\ u.done
    /\ u.value.num = 60 * u.value.den
    /\ u.result.color = "yellow"

(* C8: print_thresholds_dec picks green exactly above 40, yellow exactly    *)
(* above 20 up to 40 and red exactly up to 20.                               *)
C8_ThresholdsDec ==
    (u.fn = "print_thresholds_dec" /\ u.done) =>
        /\ u.result.color \in {"green", "yellow", "red"}
        /\ u.result.color = "green" <=> u.value.num > 40 * u.value.den
        /\ u.result.color = "yellow" <=>
              (u.value.num > 20 * u.value.den /\ u.value.num <= 40 * u.value.den)
        /\ u.result.color = "red" <=> u.value.num <= 20 * u.value.den

(* C8, witness: the value 20 was coloured red *)
C8_Witness ==
    /\ u.fn = "print_thresholds_dec" /\ u.done
    /\ u.value.num = 20 * u.value.den
    /\ u.result.color = "red"

----------------------------------------------------------------------------
(* Properties of the reports within a run of main (Spec)                    *)

(* The sections the report `where` printed, in order *)
RECURSIVE PrintedIn(_, _)
PrintedIn(t, where) ==
    IF Len(t) = 0 THEN <<>>
    ELSE (IF Kind(t[1]) = "print" /\ Where(t[1]) = where THEN <<What(t[1])>> ELSE <<>>)
         \o PrintedIn(Tail(t), where)

LastIsCapacity == last.report = "get_cluster_vsan_capacity"

(* C9: the capacity report completes only if totalCapacityB is not 0 and,   *)
(* with efficientCapacity present, logicalCapacity and physicalCapacity are  *)
(* not 0; with totalCapacityB 0 it raises a division error after the header  *)
(* and before any other section.                                             *)
C9_DivisorsNotChecked ==
    LastIsCapacity =>
        /\ last.raised = "" =>
              /\ last.reply.ok
              /\ last.reply.data.totalCapacityB # 0
              /\ Truthy(last.reply.data.efficientCapacity) =>
                    /\ Val(last.reply.data.efficientCapacity).logicalCapacity # 0
                    /\ Val(last.reply.data.efficientCapacity).physicalCapacity # 0
        /\ (last.reply.ok /\ last.reply.data.totalCapacityB = 0) =>
              /\ last.raised = "ZeroDivisionError"
              /\ PrintedIn(trace, "get_cluster_vsan_capacity") = <<"header">>
              /\ \E j, k \in DOMAIN trace :
                    /\ j < k
                    /\ trace[j] = Ev("print", "header", "get_cluster_vsan_capacity", "")
                    /\ trace[k] = Ev("raise", "ZeroDivisionError",
                                     "get_cluster_vsan_capacity", "")

(* C9, witness: the service reported a total capacity of 0 and the report   *)
(* raised                                                                    *)
C9_Witness ==
    /\ LastIsCapacity /\ last.reply.ok
    /\ last.reply.data.totalCapacityB = 0
    /\ last.raised = "ZeroDivisionError"

ReportRaisedAt(k) ==
    /\ Kind(trace[k]) = "raise"
    /\ \E n \in DOMAIN MainReports : Where(trace[k]) = MainReports[n]

EnteredAt(j, report) == trace[j] = Ev("enter", report, report, "")

(* C10: once a report raised, no report is started and no remote query is   *)
(* made, and main is left; no report makes its query twice; and the HCL      *)
(* report is started only after the capacity and health reports completed.   *)
C10_NoRecovery ==
    /\ \A k \in DOMAIN trace :
          ReportRaisedAt(k) =>
              /\ pc \in {"raised", "exit"}
              /\ \A j \in DOMAIN trace :
                    j > k => /\ Kind(trace[j]) # "enter"
                             /\ Kind(trace[j]) = "call" => What(trace[j]) = "Disconnect"
    /\ \A j, k \in DOMAIN trace :
          (Kind(trace[j]) = "call" /\ What(trace[j]) \in QueryNames /\ trace[j] = trace[k])
              => j = k
    /\ \A j \in DOMAIN trace :
          EnteredAt(j, "get_cluster_hcl_info") =>
              /\ \E c, h \in 1..(j - 1) :
                    /\ c < h
                    /\ EnteredAt(c, "get_cluster_vsan_capacity")
                    /\ EnteredAt(h, "get_health_status")
              /\ \A k \in 1..(j - 1) : Kind(trace[k]) # "raise"

(* C10, witness: the health report raised and the run has ended *)
C10_Witness ==
    /\ pc = "exit"
    /\ EnteredIn(trace) = <<"get_cluster_vsan_capacity", "get_health_status">>
    /\ \E k \in DOMAIN trace : ReportRaisedAt(k) /\ Where(trace[k]) = "get_health_status"

====
